---- MODULE Spec2Model ----
(***************************************************************************)
(* Episode lifecycle of habitat.core.env.Env: construction, the setters of *)
(* current_episode / episode_iterator / episodes, reset(), step(), seed(), *)
(* reconfigure() with its fixed-pose table, and the rejection sampling of  *)
(* generate_state().                                                       *)
(***************************************************************************)
EXTENDS Integers, Sequences, FiniteSets, TLC

\* ------------------------------------------------------------------ bounds
MaxAgents == 2       \* SIMULATOR.NUM_AGENTS ranges over 1..MaxAgents
MaxSteps == 1        \* ENVIRONMENT.MAX_EPISODE_STEPS ranges over 0..MaxSteps
MaxSeconds == 1      \* ENVIRONMENT.MAX_EPISODE_SECONDS ranges over 0..MaxSeconds
MaxTable == 2        \* each fixed-pose json list holds 0..MaxTable entries
MaxEpisodes == 3     \* a dataset holds 1..MaxEpisodes episodes
RngStates == 3       \* the random generator has the states 0..RngStates-1
MaxResets == 2       \* each of two compared runs calls reset() up to MaxResets times

\* ------------------------------------------------------- episode objects
\* Episode objects are named 1..4; NoEpisode stands for Python's None.
NoEpisode == 0
EpisodeIds == 1..4

\* Episode.start_position = [x, y, z]; index 2 (Python index 1) is vertical.
StartPos(e) ==
    CASE e = 1 -> <<0, 0, 0>>
      [] e = 2 -> <<1, 0, 0>>
      [] e = 3 -> <<0, 0, 2>>
      [] OTHER -> <<0, 1, 0>>

\* Episode.start_rotation, an opaque value owned by the episode.
StartRot(e) == <<"rot", e>>

\* The episode lists a dataset may hold: runs of consecutive episodes, of
\* length 1..MaxEpisodes.
Datasets ==
    { s \in { [i \in 1..n |-> a + i - 1] : a \in EpisodeIds, n \in 1..MaxEpisodes } :
        s[Len(s)] \in EpisodeIds }

\* ------------------------------------------------------------- variables
VARIABLES
    config,                \* the frozen Config the environment was built with
    has_dataset,           \* self._dataset is not None
    episodes,              \* self._dataset.episodes ([] without a dataset)
    fixed_start_position,  \* start_position.json, loaded in fixed-pose mode
    fixed_start_rotation,  \* start_rotation.json, loaded in fixed-pose mode
    env,                   \* the fields of the Env object
    now,                   \* time.time()
    pc,                    \* "idle", or "generate_state" inside the sampling loop
    lastOp,                \* the operation called last (seed() apart)
    result,                \* how that call ended: "ok", an error, or "running"
    trace,                 \* the calls that operation made, in order
    steps_since_reset,     \* successful step() calls since reset() was last called
    reset_called,          \* reset() has been called on this environment
    runs                   \* two environments run side by side (SpecSeed only)

vars == <<config, has_dataset, episodes, fixed_start_position,
          fixed_start_rotation, env, now, pc, lastOp, result, trace,
          steps_since_reset, reset_called, runs>>

\* What no operation of the environment changes: what construction fixes
\* for the lifetime of the object, and the pair of runs compared under
\* SpecSeed.
frozen == <<config, has_dataset, fixed_start_position, fixed_start_rotation, runs>>

\* The variables of the single environment that the operations work on.
single == <<episodes, env, now, pc, lastOp, result, trace, steps_since_reset,
            reset_called>>

\* self._episode_start_time = None
NoTime == -1

\* The wall clock runs over 1..MaxTime.
MaxTime == MaxSeconds + 1

\* ------------------------------------------------------------ the cursor
\* An episode iterator: the episodes it walks, how many it has produced of
\* the current pass, whether it cycles, and whether it is an EpisodeIterator
\* (only those receive step_taken()).
NoIter == [none |-> TRUE, eps |-> <<>>, pos |-> 0, cycle |-> FALSE, notify |-> FALSE]

\* Dataset.get_episode_iterator(**options): a cycling EpisodeIterator.
DatasetIterator(eps) ==
    [none |-> FALSE, eps |-> eps, pos |-> 0, cycle |-> TRUE, notify |-> TRUE]

\* next(it): the episode produced and the advanced iterator, or StopIteration.
IterNext(it) ==
    IF it.pos < Len(it.eps)
    THEN [ok |-> TRUE, ep |-> it.eps[it.pos + 1], it |-> [it EXCEPT !.pos = it.pos + 1]]
    ELSE IF it.cycle /\ Len(it.eps) > 0
    THEN [ok |-> TRUE, ep |-> it.eps[1], it |-> [it EXCEPT !.pos = 1]]
    ELSE [ok |-> FALSE, ep |-> NoEpisode, it |-> it]

\* What a caller installs through the episode_iterator setter: a plain
\* Python iterator over a list of episodes, which ends and is no
\* EpisodeIterator.
UserIterator(eps) ==
    [none |-> FALSE, eps |-> eps, pos |-> 0, cycle |-> FALSE, notify |-> FALSE]

\* ------------------------------------------------------------- trace events
Event(name, ep, idx, poses, rots) ==
    [ev |-> name, ep |-> ep, idx |-> idx, pos |-> poses, rot |-> rots]

\* An event that carries only an episode (or nothing: NoEpisode).
Call(name, ep) == Event(name, ep, 0, <<>>, <<>>)

EventsIn(tr, name) == SelectSeq(tr, LAMBDA x : x.ev = name)
Events(name) == EventsIn(trace, name)

\* --------------------------------------------------------------- budget
\* InitMaxEpisodeSteps without the factor NUM_AGENTS.
InitMaxEpisodeSteps_PerCall(cfg) == cfg.MAX_EPISODE_STEPS

\* Env.__init__: self._max_episode_steps
InitMaxEpisodeSteps(cfg) == cfg.MAX_EPISODE_STEPS * cfg.NUM_AGENTS

\* Env._elapsed_seconds at clock value t
ElapsedSeconds(e, t) == t - e.episode_start_time

\* PastLimit with both comparisons strict.
PastLimit_Strict(e, t) ==
    \/ /\ e.max_episode_steps # 0
       /\ e.max_episode_steps < e.elapsed_steps
    \/ /\ e.max_episode_seconds # 0
       /\ e.max_episode_seconds < ElapsedSeconds(e, t)

\* Env._past_limit at clock value t
PastLimit(e, t) ==
    \/ /\ e.max_episode_steps # 0
       /\ e.max_episode_steps <= e.elapsed_steps
    \/ /\ e.max_episode_seconds # 0
       /\ e.max_episode_seconds <= ElapsedSeconds(e, t)

\* Env._reset_stats at clock value t
ResetStats(e, t) ==
    [e EXCEPT !.episode_start_time = t, !.elapsed_steps = 0, !.episode_over = FALSE]

\* ------------------------------------------------------- generate_state
\* random.sample(self.episodes, n): n distinct list positions, in draw order.
Samples(eps, n) ==
    { [i \in 1..n |-> eps[f[i]]] :
        f \in { g \in [1..n -> 1..Len(eps)] :
                  \A a \in 1..n : \A b \in 1..n : a # b => g[a] # g[b] } }

\* start_position / start_rotation lists built from a sample.
StartPositions(st) == [i \in 1..Len(st) |-> StartPos(st[i])]
StartRotations(st) == [i \in 1..Len(st) |-> StartRot(st[i])]

\* SameFloor reading the first coordinate instead of the vertical one.
SameFloor_WrongAxis(position) ==
    Cardinality({ position[i][1] : i \in 1..Len(position) }) = 1

\* len(np.unique(start_y)) == 1
SameFloor(position) ==
    Cardinality({ position[i][2] : i \in 1..Len(position) }) = 1

\* pu.get_l2_distance(x1, x2, y1, y2) < 2 on integer coordinates, with
\* x = -p[2] and y = -p[0] (Python indices) as generate_state passes them.
L2Squared(x1, x2, y1, y2) == (x1 - x2) * (x1 - x2) + (y1 - y2) * (y1 - y2)
DistanceLessThan2(p, q) == L2Squared(0 - p[3], 0 - q[3], 0 - p[1], 0 - q[1]) < 2 * 2

\* The nested i / j loops: generate_success survives them exactly when no
\* pair takes the else branch.
PairLoop(position) ==
    \A i \in 1..Len(position) :
        \A j \in 1..(Len(position) - i) :
            DistanceLessThan2(position[i], position[i + j])

\* GenerateSuccess without the test on the vertical coordinates.
GenerateSuccess_AnyFloor(cfg, position) ==
    IF ~cfg.USE_FULL_RAND_STATE THEN PairLoop(position) ELSE TRUE

\* generate_success at the end of one iteration of the while loop
GenerateSuccess(cfg, position) ==
    IF SameFloor(position)
    THEN IF ~cfg.USE_FULL_RAND_STATE THEN PairLoop(position) ELSE TRUE
    ELSE FALSE

\* ------------------------------------------------------ fixed-pose table
\* The json lists: entry i holds one pose per agent.
FixedPositions(n, len) == [i \in 1..len |-> [a \in 1..n |-> <<i, 0, a>>]]
FixedRotations(n, len) == [i \in 1..len |-> [a \in 1..n |-> <<"fixed", i>>]]

\* ---------------------------------------------------------- construction
\* The configurations explored: every agent count with every step and time
\* budget in the default modes (cursor selection, sampled start poses with
\* the separation check), and without a budget every agent count with
\* the fixed-pose table under cursor selection and with sampled start poses
\* under every selection mode, the separation check on or off.
Configs ==
    { c \in [NUM_AGENTS : 1..MaxAgents,
             MAX_EPISODE_STEPS : 0..MaxSteps,
             MAX_EPISODE_SECONDS : 0..MaxSeconds,
             USE_FIXED_START_POS : BOOLEAN,
             USE_SAME_SCENE : BOOLEAN,
             USE_FULL_RAND_STATE : BOOLEAN] :
        /\ c.USE_FIXED_START_POS => ~c.USE_FULL_RAND_STATE /\ ~c.USE_SAME_SCENE
        /\ c.MAX_EPISODE_STEPS # 0 \/ c.MAX_EPISODE_SECONDS # 0 =>
              ~c.USE_FIXED_START_POS /\ ~c.USE_SAME_SCENE /\ ~c.USE_FULL_RAND_STATE }

\* The datasets an environment is built on. Fixed-pose mode never reads an
\* episode's start position, and a budget does not depend on it, so there
\* the lists 1..n stand for all others.
InitialDatasets(cfg) ==
    IF \/ cfg.USE_FIXED_START_POS
       \/ cfg.MAX_EPISODE_STEPS # 0
       \/ cfg.MAX_EPISODE_SECONDS # 0
    THEN { d \in Datasets : d[1] = 1 }
    ELSE Datasets

\* Env.__init__ up to the dataset branch, then the fields set after it.
NewEnv(cfg) ==
    [current_episode |-> NoEpisode,
     episode_iterator |-> NoIter,
     episode_from_iter_on_reset |-> TRUE,
     episode_force_changed |-> FALSE,
     max_episode_seconds |-> cfg.MAX_EPISODE_SECONDS,
     max_episode_steps |-> InitMaxEpisodeSteps(cfg),
     elapsed_steps |-> 0,
     episode_start_time |-> NoTime,
     episode_over |-> FALSE,
     load_num |-> 0,
     cached |-> {}]

\* The current_episode setter.
SetCurrent(e, ep) ==
    [e EXCEPT !.current_episode = ep,
              !.episode_from_iter_on_reset = FALSE,
              !.episode_force_changed = TRUE]

\* Env.__init__ with a dataset: _setup_episode_iterator, then
\* self.current_episode = next(self.episode_iterator).
InitWithDataset(cfg, eps) ==
    LET n == IterNext(DatasetIterator(eps))
    IN  SetCurrent([NewEnv(cfg) EXCEPT !.episode_iterator = n.it], n.ep)

\* No pair of runs: the value of runs under Spec.
NoRuns == <<>>

\* Construction of the environment.
InitEnv ==
    /\ config \in Configs
    /\ has_dataset \in BOOLEAN
    /\ episodes \in (IF has_dataset THEN InitialDatasets(config) ELSE {<<>>})
    /\ \E p \in 0..MaxTable, r \in 0..MaxTable :
          /\ p = r
          /\ fixed_start_position =
                IF config.USE_FIXED_START_POS
                THEN FixedPositions(config.NUM_AGENTS, p) ELSE <<>>
          /\ fixed_start_rotation =
                IF config.USE_FIXED_START_POS
                THEN FixedRotations(config.NUM_AGENTS, r) ELSE <<>>
    /\ env = IF has_dataset THEN InitWithDataset(config, episodes) ELSE NewEnv(config)
    /\ now = 1
    /\ pc = "idle"
    /\ lastOp = "init"
    /\ result = "ok"
    /\ trace = <<>>
    /\ steps_since_reset = 0
    /\ reset_called = FALSE

Init ==
    /\ InitEnv
    /\ runs = NoRuns

\* ---------------------------------------------------------------- reset
\* reset() runs as a chain of stages over st = [e, err, tr]: the Env fields,
\* the exception raised so far ("ok" when none) and the calls made. A stage
\* after an exception does nothing.
Raise(st, error) == [st EXCEPT !.err = error]

\* self._reset_stats()
StageResetStats(e, t) ==
    [e |-> ResetStats(e, t), err |-> "ok", tr |-> <<Call("reset_stats", NoEpisode)>>]

\* if self._current_episode is not None: drop its shortest-path cache
StageClearCache(st) ==
    IF st.e.current_episode # NoEpisode
    THEN [st EXCEPT !.e.cached = @ \ {st.e.current_episode},
                    !.tr = Append(@, Call("clear_cache", st.e.current_episode))]
    ELSE st

\* st after self._current_episode = next(self._episode_iterator)
TakeNext(st) ==
    LET n == IterNext(st.e.episode_iterator)
    IN  IF st.e.episode_iterator.none THEN Raise(st, "TypeError")
        ELSE IF ~n.ok THEN Raise(st, "StopIteration")
        ELSE [st EXCEPT !.e.current_episode = n.ep,
                        !.e.episode_iterator = n.it,
                        !.tr = Append(@, Call("next", n.ep))]

\* if self._episode_iterator is not None and self._episode_from_iter_on_reset
StageIterDraw(st) ==
    IF st.err # "ok" THEN st
    ELSE IF ~st.e.episode_iterator.none /\ st.e.episode_from_iter_on_reset
    THEN TakeNext(st)
    ELSE st

\* assert len(self.episodes) > 0
StageAssertEpisodes(st, eps) ==
    IF st.err # "ok" THEN st
    ELSE IF Len(eps) > 0 THEN st ELSE Raise(st, "EmptyEpisodeSet")

\* self._current_episode = random.choice(self.episodes)
\*     if USE_SAME_SCENE else next(self._episode_iterator)
\* c is the member random.choice picks.
StageSelect(st, cfg, c) ==
    IF st.err # "ok" THEN st
    ELSE IF cfg.USE_SAME_SCENE
    THEN [st EXCEPT !.e.current_episode = c, !.tr = Append(@, Call("choice", c))]
    ELSE TakeNext(st)

\* StageClearFlags leaving _episode_force_changed as it is.
StageClearFlags_KeepDirty(st) ==
    IF st.err # "ok" THEN st
    ELSE [st EXCEPT !.e.episode_from_iter_on_reset = TRUE]

\* self._episode_from_iter_on_reset = True; self._episode_force_changed = False
StageClearFlags(st) ==
    IF st.err # "ok" THEN st
    ELSE [st EXCEPT !.e.episode_from_iter_on_reset = TRUE,
                    !.e.episode_force_changed = FALSE]

\* reset() from its first line to the call of reconfigure()
ResetPrefix(e, t, cfg, eps, c) ==
    StageClearFlags(
        StageSelect(
            StageAssertEpisodes(
                StageIterDraw(StageClearCache(StageResetStats(e, t))), eps),
            cfg, c))

\* StageFixedPose without self.load_num += 1.
StageFixedPose_NoIncrement(st, positions, rotations) ==
    IF st.err # "ok" THEN st
    ELSE IF st.e.load_num >= Len(positions) THEN [st EXCEPT !.err = "FixedPoseExhausted"]
    ELSE IF st.e.load_num >= Len(rotations) THEN [st EXCEPT !.err = "FixedPoseExhausted"]
    ELSE [st EXCEPT !.tr = Append(@, Event("table_read", NoEpisode, st.e.load_num,
                                           positions[st.e.load_num + 1],
                                           rotations[st.e.load_num + 1]))]

\* StageFixedPose with self.load_num += 1 made before the list reads.
StageFixedPose_IncrementFirst(st, positions, rotations) ==
    IF st.err # "ok" THEN st
    ELSE IF st.e.load_num >= Len(positions) \/ st.e.load_num >= Len(rotations)
    THEN [st EXCEPT !.e.load_num = @ + 1, !.err = "FixedPoseExhausted"]
    ELSE [st EXCEPT !.e.load_num = @ + 1,
                    !.tr = Append(@, Event("table_read", NoEpisode, st.e.load_num,
                                           positions[st.e.load_num + 1],
                                           rotations[st.e.load_num + 1]))]

\* reconfigure(), fixed-pose branch: two list reads (IndexError past the
\* end of either list), then self.load_num += 1.
StageFixedPose(st, positions, rotations) ==
    IF st.err # "ok" THEN st
    ELSE IF st.e.load_num >= Len(positions) THEN Raise(st, "FixedPoseExhausted")
    ELSE IF st.e.load_num >= Len(rotations) THEN Raise(st, "FixedPoseExhausted")
    ELSE [st EXCEPT !.e.load_num = @ + 1,
                    !.tr = Append(@, Event("table_read", NoEpisode, st.e.load_num,
                                           positions[st.e.load_num + 1],
                                           rotations[st.e.load_num + 1]))]

\* The start poses the last stage produced.
PosesOf(st) == st.tr[Len(st.tr)]

\* StageFinish with the task reset made before the simulator is reconfigured.
StageFinish_TaskFirst(st) ==
    IF st.err # "ok" THEN st
    ELSE LET ep == st.e.current_episode
             p  == PosesOf(st)
         IN  [st EXCEPT !.tr = @ \o
                 << Call("task.reset", ep),
                    Event("overwrite_sim_config", ep, 0, p.pos, p.rot),
                    Event("sim.reconfigure", ep, 0, p.pos, p.rot),
                    Call("reset_measures", ep) >>]

\* reconfigure() after the poses are known, then the rest of reset():
\* overwrite_sim_config, sim.reconfigure, task.reset, reset_measures.
StageFinish(st) ==
    IF st.err # "ok" THEN st
    ELSE LET ep == st.e.current_episode
             p  == PosesOf(st)
         IN  [st EXCEPT !.tr = @ \o
                 << Event("overwrite_sim_config", ep, 0, p.pos, p.rot),
                    Event("sim.reconfigure", ep, 0, p.pos, p.rot),
                    Call("task.reset", ep),
                    Call("reset_measures", ep) >>]

\* random.choice(self.episodes) is evaluated only in use-same-scene mode
\* with a non-empty list.
Choices ==
    IF config.USE_SAME_SCENE /\ Len(episodes) > 0
    THEN { episodes[i] : i \in 1..Len(episodes) }
    ELSE { NoEpisode }

\* reset() in fixed-pose mode, or failing before reconfigure() is reached.
ResetDirect ==
    /\ pc = "idle"
    /\ \E c \in Choices :
         LET st == ResetPrefix(env, now, config, episodes, c)
             fin == StageFinish(StageFixedPose(st, fixed_start_position,
                                               fixed_start_rotation))
         IN  /\ st.err # "ok" \/ config.USE_FIXED_START_POS
             /\ env' = fin.e
             /\ trace' = fin.tr
             /\ result' = fin.err
    /\ lastOp' = "reset"
    /\ steps_since_reset' = 0
    /\ reset_called' = TRUE
    /\ UNCHANGED <<frozen, episodes, now, pc>>

\* reset() reaching generate_state(): random.sample raises ValueError when
\* asked for more agents than there are episodes; otherwise the while loop
\* is entered.
ResetSampling ==
    /\ pc = "idle"
    /\ ~config.USE_FIXED_START_POS
    /\ \E c \in Choices :
         LET st == ResetPrefix(env, now, config, episodes, c)
         IN  /\ st.err = "ok"
             /\ env' = st.e
             /\ trace' = st.tr
             /\ IF config.NUM_AGENTS > Len(episodes)
                THEN result' = "ValueError" /\ pc' = "idle"
                ELSE result' = "running" /\ pc' = "generate_state"
    /\ lastOp' = "reset"
    /\ steps_since_reset' = 0
    /\ reset_called' = TRUE
    /\ UNCHANGED <<frozen, episodes, now>>

\* One iteration of the while loop that ends with generate_success false.
DrawReject ==
    /\ pc = "generate_state"
    /\ \E s \in Samples(episodes, config.NUM_AGENTS) :
         /\ ~GenerateSuccess(config, StartPositions(s))
    /\ UNCHANGED vars

\* The iteration that ends the loop: generate_state returns and reset()
\* runs to its end.
DrawAccept ==
    /\ pc = "generate_state"
    /\ \E s \in Samples(episodes, config.NUM_AGENTS) :
         /\ GenerateSuccess(config, StartPositions(s))
         /\ LET st == [e |-> env, err |-> "ok",
                       tr |-> Append(trace, Event("generate_state", NoEpisode, 0,
                                                  StartPositions(s), StartRotations(s)))]
            IN  trace' = StageFinish(st).tr
    /\ result' = "ok"
    /\ pc' = "idle"
    /\ UNCHANGED <<reset_called, frozen, episodes, env, now, lastOp, steps_since_reset>>

\* ----------------------------------------------------------------- step
\* UpdateStepStats without the test of _past_limit().
UpdateStepStats_NoLimit(e, active, t) ==
    [e EXCEPT !.elapsed_steps = @ + 1, !.episode_over = ~active]

\* Env._update_step_stats, up to the step_taken notification
UpdateStepStats(e, active, t) ==
    LET e1 == [e EXCEPT !.elapsed_steps = @ + 1, !.episode_over = ~active]
    IN  IF PastLimit(e1, t) THEN [e1 EXCEPT !.episode_over = TRUE] ELSE e1

\* StepError without the assertion on _episode_force_changed.
StepError_NoStaleCheck(e) ==
    IF e.episode_start_time = NoTime THEN "StepBeforeReset"
    ELSE IF e.episode_over # FALSE THEN "EpisodeAlreadyOver"
    ELSE IF e.current_episode = NoEpisode THEN "AssertionError"
    ELSE "ok"

\* StepError with the assertion on _episode_force_changed made first.
StepError_StaleFirst(e) ==
    IF e.episode_force_changed THEN "StaleEpisodeState"
    ELSE IF e.episode_start_time = NoTime THEN "StepBeforeReset"
    ELSE IF e.episode_over # FALSE THEN "EpisodeAlreadyOver"
    ELSE IF e.current_episode = NoEpisode THEN "AssertionError"
    ELSE "ok"

\* StepError without the assertion on _episode_over.
StepError_NoOverCheck(e) ==
    IF e.episode_start_time = NoTime THEN "StepBeforeReset"
    ELSE IF e.episode_force_changed THEN "StaleEpisodeState"
    ELSE IF e.current_episode = NoEpisode THEN "AssertionError"
    ELSE "ok"

\* The assertions of step(), in order, then the current_episode property's.
StepError(e) ==
    IF e.episode_start_time = NoTime THEN "StepBeforeReset"
    ELSE IF e.episode_over # FALSE THEN "EpisodeAlreadyOver"
    ELSE IF e.episode_force_changed THEN "StaleEpisodeState"
    ELSE IF e.current_episode = NoEpisode THEN "AssertionError"
    ELSE "ok"

\* StepCalls with the step_taken notification sent before the task step.
StepCalls_NotifyFirst(e, agent_id, active) ==
    (IF ~e.episode_iterator.none /\ e.episode_iterator.notify
     THEN <<Call("step_taken", NoEpisode)>> ELSE <<>>)
    \o << Event("task.step", e.current_episode, agent_id, <<>>, <<>>),
          Call("update_measures", e.current_episode),
          Call(IF active THEN "is_episode_active" ELSE "not_episode_active", NoEpisode) >>

\* The calls of a step() that passes its assertions.
StepCalls(e, agent_id, active) ==
    << Event("task.step", e.current_episode, agent_id, <<>>, <<>>),
       Call("update_measures", e.current_episode),
       Call(IF active THEN "is_episode_active" ELSE "not_episode_active", NoEpisode) >>
    \o (IF ~e.episode_iterator.none /\ e.episode_iterator.notify
        THEN <<Call("step_taken", NoEpisode)>> ELSE <<>>)

\* The largest elapsed_steps the model lets an episode without a step
\* budget reach.
StepCap == MaxSteps + 1

\* The configurations in which the task's measures are explored to store
\* shortest paths on the episode they are given: the default modes without
\* a budget.
Caching(cfg) ==
    /\ cfg.MAX_EPISODE_STEPS = 0 /\ cfg.MAX_EPISODE_SECONDS = 0
    /\ ~cfg.USE_FIXED_START_POS /\ ~cfg.USE_SAME_SCENE /\ ~cfg.USE_FULL_RAND_STATE

\* Whether the measures updated by a step() fill episode._shortest_path_cache.
Fills(cfg) == IF Caching(cfg) THEN BOOLEAN ELSE {FALSE}

\* The measures store shortest paths on the episode step() passes them.
FillCache(e, fill) ==
    IF fill THEN [e EXCEPT !.cached = @ \cup {e.current_episode}] ELSE e

\* StepFail counting the refused call in _elapsed_steps.
StepFail_CountsStep ==
    /\ pc = "idle"
    /\ StepError(env) # "ok"
    /\ result' = StepError(env)
    /\ lastOp' = "step"
    /\ trace' = <<>>
    /\ env' = [env EXCEPT !.elapsed_steps = IF @ < StepCap THEN @ + 1 ELSE @]
    /\ UNCHANGED <<reset_called, frozen, episodes, now, pc, steps_since_reset>>

\* step(agent_id, action) raising one of its assertion errors
StepFail ==
    /\ pc = "idle"
    /\ StepError(env) # "ok"
    /\ result' = StepError(env)
    /\ lastOp' = "step"
    /\ trace' = <<>>
    /\ UNCHANGED <<reset_called, frozen, episodes, env, now, pc, steps_since_reset>>

\* step(agent_id, action) running to its end. active is what
\* task.is_episode_active reads afterwards.
StepOk ==
    /\ pc = "idle"
    /\ StepError(env) = "ok"
    /\ env.max_episode_steps = 0 => env.elapsed_steps < StepCap
    /\ \E agent_id \in 0..(config.NUM_AGENTS - 1), active \in BOOLEAN,
          fill \in Fills(config) :
         /\ env' = UpdateStepStats(FillCache(env, fill), active, now)
         /\ trace' = StepCalls(env, agent_id, active)
    /\ result' = "ok"
    /\ lastOp' = "step"
    /\ steps_since_reset' = steps_since_reset + 1
    /\ UNCHANGED <<reset_called, frozen, episodes, now, pc>>

\* -------------------------------------------------------------- setters
\* The episodes a caller pins: the first and the last of the dataset
\* (episode 1 without one).
Pinnable == IF episodes = <<>> THEN {1} ELSE { episodes[1], episodes[Len(episodes)] }

\* env.current_episode = episode
SetCurrentEpisode ==
    /\ pc = "idle"
    /\ \E ep \in Pinnable : env' = SetCurrent(env, ep)
    /\ lastOp' = "set_current_episode"
    /\ result' = "ok"
    /\ trace' = <<>>
    /\ UNCHANGED <<reset_called, frozen, episodes, now, pc, steps_since_reset>>

\* The episode_iterator setter.
SetIterator(e, it) ==
    [e EXCEPT !.episode_iterator = it,
              !.episode_force_changed = TRUE,
              !.episode_from_iter_on_reset = TRUE]

\* The list a caller builds an iterator on: the first two episodes of the
\* dataset (all of a shorter one, episode 1 without a dataset).
IteratorInput ==
    IF episodes = <<>> THEN <<1>>
    ELSE IF Len(episodes) <= 2 THEN episodes
    ELSE SubSeq(episodes, 1, 2)

\* env.episode_iterator = new_iter
SetEpisodeIterator ==
    /\ pc = "idle"
    /\ env' = SetIterator(env, UserIterator(IteratorInput))
    /\ lastOp' = "set_episode_iterator"
    /\ result' = "ok"
    /\ trace' = <<>>
    /\ UNCHANGED <<reset_called, frozen, episodes, now, pc, steps_since_reset>>

\* The episodes setter after its two assertions.
ReplaceEpisodes(e, eps) ==
    [e EXCEPT !.episode_iterator = DatasetIterator(eps),
              !.current_episode = NoEpisode,
              !.episode_force_changed = TRUE,
              !.episode_from_iter_on_reset = TRUE]

\* The lists a caller assigns to env.episodes: the current list again, or
\* the list filtered down by its first or its last episode (any dataset list
\* when the environment has no dataset to hold it).
Replacements ==
    IF episodes = <<>> THEN Datasets
    ELSE { eps \in { episodes, Tail(episodes), SubSeq(episodes, 1, Len(episodes) - 1) } :
             Len(eps) > 0 }

\* env.episodes = eps
SetEpisodes ==
    /\ pc = "idle"
    /\ \E eps \in Replacements :
         IF Len(eps) > 0 /\ has_dataset
         THEN /\ episodes' = eps
              /\ env' = ReplaceEpisodes(env, eps)
              /\ result' = "ok"
         ELSE /\ UNCHANGED <<episodes, env>>
              /\ result' = "AssertionError"
    /\ lastOp' = "set_episodes"
    /\ trace' = <<>>
    /\ UNCHANGED <<reset_called, frozen, now, pc, steps_since_reset>>

\* env.seed(seed): reseeds random, numpy, the simulator and the task. The
\* model draws every random value nondeterministically, so no variable of
\* it changes.
Seed ==
    /\ pc = "idle"
    /\ UNCHANGED vars

\* The wall clock advances. The clock is read only to stamp the episode
\* start and to measure a time budget, so it is held still when no time
\* budget is configured.
Tick ==
    /\ env.max_episode_seconds # 0
    /\ now < MaxTime
    /\ now' = now + 1
    /\ UNCHANGED <<reset_called, frozen, episodes, env, pc, lastOp, result, trace,
                   steps_since_reset, reset_called>>

Next ==
    \/ ResetDirect
    \/ ResetSampling
    \/ DrawReject
    \/ DrawAccept
    \/ StepFail
    \/ StepOk
    \/ SetCurrentEpisode
    \/ SetEpisodeIterator
    \/ SetEpisodes
    \/ Seed
    \/ Tick

Spec == Init /\ [][Next]_vars

\* Fair random draws: random.sample gives every sample a positive
\* probability on every iteration, so a loop that keeps having a sample it
\* would accept does not reject forever.
SpecFair == Init /\ [][Next]_vars /\ WF_vars(DrawAccept)

\* ------------------------------------------------------- two seeded runs
\* SpecSeed runs two environments built from the same configuration and
\* dataset content side by side. Each has its own state of the global
\* random generator, which seed() sets and random.sample consumes.

\* random.seed(seed): the generator state is a function of the seed alone.
SeedRandom_Ignored(r, v) == r

\* random.seed(seed)
SeedRandom(r, v) == v % RngStates

\* The generator state after one value was drawn from it.
NextRandom(r) == (r + 1) % RngStates

\* The values seed() is called with.
Seeds == 0..(RngStates - 1)

\* A list without its i-th element.
Remove(pool, i) == SubSeq(pool, 1, i - 1) \o SubSeq(pool, i + 1, Len(pool))

\* random.sample(pool, n) from generator state r: the n distinct members
\* drawn, in draw order, and the generator state afterwards.
RECURSIVE RandomSample(_, _, _)
RandomSample(pool, n, r) ==
    IF n = 0 THEN [out |-> <<>>, rng |-> r]
    ELSE LET i == (r % Len(pool)) + 1
             rest == RandomSample(Remove(pool, i), n - 1, NextRandom(r))
         IN  [out |-> <<pool[i]>> \o rest.out, rng |-> rest.rng]

\* What one reset() of a run selected: how it ended, the current episode
\* and the start state given to the simulator.
Outcome(err, ep, poses, rots) == [err |-> err, ep |-> ep, pos |-> poses, rot |-> rots]

\* The outcome of a reset() that ran the stages up to fin.
OutcomeOf(fin) ==
    IF fin.err = "ok"
    THEN LET r == EventsIn(fin.tr, "sim.reconfigure")[1]
         IN  Outcome("ok", fin.e.current_episode, r.pos, r.rot)
    ELSE Outcome(fin.err, fin.e.current_episode, <<>>, <<>>)

\* A run after construction, with generator state r.
NewRun(e, r) == [env |-> e, rng |-> r, pc |-> "idle", seeded |-> FALSE, hist |-> <<>>]

InitSeed ==
    /\ InitEnv
    /\ ~config.USE_SAME_SCENE
    /\ runs \in { <<NewRun(env, a), NewRun(env, b)>> : a \in 0..(RngStates - 1),
                                                       b \in 0..(RngStates - 1) }

\* env.seed(v), called on both runs with the same value before any reset().
SeedRuns ==
    /\ \A k \in 1..2 : ~runs[k].seeded
    /\ \E v \in Seeds :
         runs' = [k \in 1..2 |-> [runs[k] EXCEPT !.rng = SeedRandom(@, v),
                                                 !.seeded = TRUE]]
    /\ UNCHANGED <<config, has_dataset, fixed_start_position, fixed_start_rotation, single>>

\* reset() of run k, up to the while loop of generate_state. Run 2 reads a
\* later wall clock than run 1.
RunReset(k) ==
    LET run == runs[k]
        st  == ResetPrefix(run.env, now + k, config, episodes, NoEpisode)
        fin == StageFinish(StageFixedPose(st, fixed_start_position, fixed_start_rotation))
    IN  /\ run.seeded
        /\ run.pc = "idle"
        /\ Len(run.hist) < MaxResets
        /\ runs' = [runs EXCEPT ![k] =
              IF st.err # "ok" \/ config.USE_FIXED_START_POS
              THEN [run EXCEPT !.env = fin.e, !.hist = Append(@, OutcomeOf(fin))]
              ELSE IF config.NUM_AGENTS > Len(episodes)
              THEN [run EXCEPT !.env = st.e,
                               !.hist = Append(@, OutcomeOf(Raise(st, "ValueError")))]
              ELSE [run EXCEPT !.env = st.e, !.pc = "generate_state"]]

\* One iteration of the while loop of generate_state in run k.
RunDraw(k) ==
    LET run == runs[k]
        s   == RandomSample(episodes, config.NUM_AGENTS, run.rng)
        st  == [e |-> run.env, err |-> "ok",
                tr |-> <<Event("generate_state", NoEpisode, 0,
                               StartPositions(s.out), StartRotations(s.out))>>]
    IN  /\ run.pc = "generate_state"
        /\ runs' = [runs EXCEPT ![k] =
              IF GenerateSuccess(config, StartPositions(s.out))
              THEN [run EXCEPT !.rng = s.rng, !.pc = "idle",
                               !.hist = Append(@, OutcomeOf(StageFinish(st)))]
              ELSE [run EXCEPT !.rng = s.rng]]

\* The two runs make their calls independently of each other.
RunResets ==
    /\ \E k \in 1..2 : RunReset(k)
    /\ UNCHANGED <<config, has_dataset, fixed_start_position, fixed_start_rotation, single>>

RunDraws ==
    /\ \E k \in 1..2 : RunDraw(k)
    /\ UNCHANGED <<config, has_dataset, fixed_start_position, fixed_start_rotation, single>>

NextSeed ==
    \/ SeedRuns
    \/ RunResets
    \/ RunDraws

SpecSeed == InitSeed /\ [][NextSeed]_vars

\* ================================================================ claims
\* The calls of reset() and of step(), as actions.
ResetCall == lastOp' = "reset" /\ (ResetDirect \/ ResetSampling)
StepCall == lastOp' = "step" /\ (StepFail \/ StepOk)

\* The start states generate_state returned to the reset() called last.
Generated == Events("generate_state")

\* Squared distance of two positions in the horizontal plane (x and z).
PlanarSquared(p, q) == (p[1] - q[1]) * (p[1] - q[1]) + (p[3] - q[3]) * (p[3] - q[3])

\* C1: with the separation check enabled (USE_FULL_RAND_STATE false), every
\* start state generate_state returns keeps every two distinct agents at
\* planar distance at least 2.
C1_MinSeparation ==
    ~config.USE_FULL_RAND_STATE =>
        \A k \in 1..Len(Generated) :
            LET position == Generated[k].pos
            IN  \A i \in 1..Len(position) : \A j \in 1..Len(position) :
                    i # j => PlanarSquared(position[i], position[j]) >= 2 * 2

\* C8: every start state generate_state returns puts all agents on one
\* vertical coordinate, with the separation check on or off.
C8_SameFloor ==
    \A k \in 1..Len(Generated) :
        LET position == Generated[k].pos
        IN  \A i \in 1..Len(position) : \A j \in 1..Len(position) :
                position[i][2] = position[j][2]

\* C8 witness: generate_state returned poses for two or more agents with
\* the separation check off, from a dataset that spans two floors.
C8_Witness ==
    /\ config.USE_FULL_RAND_STATE
    /\ lastOp = "reset" /\ result = "ok"
    /\ Len(Generated) = 1
    /\ Len(Generated[1].pos) >= 2
    /\ \E i \in 1..Len(episodes) : \E j \in 1..Len(episodes) :
          StartPos(episodes[i])[2] # StartPos(episodes[j])[2]

\* -------------------------------------------------------------------- C2
\* The current episode is pinned: set directly, and not overridden since.
Pinned == ~env.episode_from_iter_on_reset /\ env.current_episode # NoEpisode

\* The episodes a finished reset() handed to the simulator configuration
\* and to the task.
HandedOver(tr) ==
    { tr[k].ep : k \in { i \in 1..Len(tr) :
        tr[i].ev \in {"overwrite_sim_config", "sim.reconfigure", "task.reset"} } }

\* C2: a reset() called with the episode pinned to e keeps e: e is current
\* when it returns, and e is what reconfiguration and the task reset get;
\* no value of the cursor replaces it.
C2_PinHonoured ==
    [][ /\ (ResetCall /\ Pinned /\ result' \in {"ok", "running"})
              => env'.current_episode = env.current_episode
        /\ (lastOp' = "reset" /\ result' = "ok")
              => HandedOver(trace') = {env'.current_episode} ]_vars

\* -------------------------------------------------------------------- C4
\* C4: without use-same-scene and without a pinned episode, a reset() draws
\* exactly one value from the cursor and makes it the current episode.
C4_OneDraw ==
    [][ (/\ ResetCall
         /\ ~config.USE_SAME_SCENE
         /\ env.episode_from_iter_on_reset
         /\ result' \in {"ok", "running"})
        => LET n == IterNext(env.episode_iterator)
           IN  /\ Len(EventsIn(trace', "next")) = 1
               /\ env'.current_episode = n.ep
               /\ env'.episode_iterator = n.it ]_vars

\* -------------------------------------------------------------------- C3
\* The last step() succeeded, with a step budget k > 0, no time budget and
\* the task reporting the episode active (as it then did on every earlier
\* step of the episode: a step after an inactive report is refused).
BudgetOnlyStep ==
    /\ lastOp = "step" /\ result = "ok"
    /\ config.MAX_EPISODE_STEPS > 0
    /\ config.MAX_EPISODE_SECONDS = 0
    /\ Len(Events("is_episode_active")) = 1

\* C3 as claimed: episode_over is false after each of the first k - 1
\* successful steps following a reset() and true exactly on the k-th, for
\* any number of agents.
C3_OverAtK ==
    BudgetOnlyStep =>
        /\ steps_since_reset <= config.MAX_EPISODE_STEPS
        /\ env.episode_over <=> (steps_since_reset = config.MAX_EPISODE_STEPS)

\* C3 amended: episode_over is false after each of the first
\* k * NUM_AGENTS - 1 successful steps following a reset() and true exactly
\* on step k * NUM_AGENTS.
C3_OverAtKTimesAgents ==
    BudgetOnlyStep =>
        /\ steps_since_reset <= config.MAX_EPISODE_STEPS * config.NUM_AGENTS
        /\ env.episode_over <=>
              (steps_since_reset = config.MAX_EPISODE_STEPS * config.NUM_AGENTS)

\* C3 witness: two agents, k = MaxSteps: the step that ends the episode is
\* step 2 * k, and k steps did not end it.
C3_Witness ==
    /\ BudgetOnlyStep
    /\ config.NUM_AGENTS = 2
    /\ config.MAX_EPISODE_STEPS = MaxSteps
    /\ steps_since_reset = 2 * MaxSteps
    /\ env.episode_over

\* -------------------------------------------------------------------- C5
\* C5 as claimed: while the dirty flag is set, every step() fails with the
\* stale-episode-state error.
C5_AlwaysStale ==
    [][ (StepCall /\ env.episode_force_changed) => result' = "StaleEpisodeState" ]_vars

\* C5 amended: the three mutators set the dirty flag; while it is set every
\* step() fails and changes nothing - with StepBeforeReset when reset() was
\* never called, with EpisodeAlreadyOver when the episode is over, and with
\* StaleEpisodeState otherwise; only reset() clears the flag.
C5_DirtyBlocksStep ==
    [][ /\ (/\ lastOp' \in {"set_current_episode", "set_episode_iterator", "set_episodes"}
            /\ (SetCurrentEpisode \/ SetEpisodeIterator \/ (SetEpisodes /\ result' = "ok")))
              => env'.episode_force_changed
        /\ (StepCall /\ env.episode_force_changed)
              => /\ env' = env
                 /\ result' = IF ~reset_called THEN "StepBeforeReset"
                              ELSE IF env.episode_over THEN "EpisodeAlreadyOver"
                              ELSE "StaleEpisodeState"
        /\ (env.episode_force_changed /\ ~env'.episode_force_changed) => ResetCall ]_vars

\* C5 witness: an episode was started and is not over, a mutator set the
\* flag, and step() failed with StaleEpisodeState.
C5_Witness ==
    /\ lastOp = "step" /\ result = "StaleEpisodeState"
    /\ env.episode_force_changed
    /\ reset_called /\ ~env.episode_over

\* -------------------------------------------------------------------- C6
\* C6: a step() on an environment on which reset() was never called fails
\* with StepBeforeReset, whatever was called before it.
C6_StepBeforeReset ==
    (lastOp = "step" /\ ~reset_called) => result = "StepBeforeReset"

\* C6 witness: a step() before any reset(), after the episode was pinned to
\* another episode than the constructor's.
C6_Witness ==
    /\ lastOp = "step" /\ ~reset_called
    /\ result = "StepBeforeReset"
    /\ env.episode_force_changed
    /\ has_dataset /\ env.current_episode # episodes[1]

\* -------------------------------------------------------------------- C7
\* C7: once episode_over is true every step() fails with EpisodeAlreadyOver
\* until reset() is called; a step() succeeds only from a state with
\* episode_over false, a start time recorded and the dirty flag clear.
C7_NoStepWhenOver ==
    [][ /\ (StepCall /\ env.episode_over)
              => result' = "EpisodeAlreadyOver" /\ env'.episode_over
        /\ (env.episode_over /\ ~env'.episode_over) => ResetCall
        /\ (StepCall /\ result' = "ok")
              => /\ ~env.episode_over
                 /\ env.episode_start_time # NoTime
                 /\ ~env.episode_force_changed ]_vars

\* C7 witness: a step() refused because the episode is over.
C7_Witness ==
    /\ lastOp = "step" /\ result = "EpisodeAlreadyOver"
    /\ env.episode_over

\* --------------------------------------------------------------- C9, C10
\* The table reads of a trace.
TableReads(tr) == EventsIn(tr, "table_read")

\* C9: in fixed-pose mode load_num starts at 0; a reset() that returns has
\* read the table once, at the load_num it was called with, and left
\* load_num one higher; nothing else changes load_num, so the indices read
\* are 0, 1, 2, ...; generate_state is never entered.
C9_FixedPoseOrder ==
    /\ config.USE_FIXED_START_POS => env.load_num = 0
    /\ [][ config.USE_FIXED_START_POS =>
             /\ ResetCall =>
                  IF result' = "ok"
                  THEN /\ Len(TableReads(trace')) = 1
                       /\ TableReads(trace')[1].idx = env.load_num
                       /\ env'.load_num = env.load_num + 1
                  ELSE /\ TableReads(trace') = <<>>
                       /\ env'.load_num = env.load_num
             /\ ~ResetCall => env'.load_num = env.load_num
             /\ pc' = "idle"
             /\ EventsIn(trace', "generate_state") = <<>> ]_vars

\* C9 witness: the second reset() of a fixed-pose environment returned,
\* having read index 1.
C9_Witness ==
    /\ config.USE_FIXED_START_POS
    /\ lastOp = "reset" /\ result = "ok"
    /\ Len(TableReads(trace)) = 1
    /\ TableReads(trace)[1].idx = 1
    /\ env.load_num = 2

C12_EmptySetFails ==
    [][ (ResetCall /\ Len(episodes) = 0)
        => /\ result' = "EmptyEpisodeSet"
           /\ EventsIn(trace', "next") = <<>>
           /\ EventsIn(trace', "choice") = <<>>
           /\ env'.current_episode = env.current_episode
           /\ env'.episode_iterator = env.episode_iterator
           /\ EventsIn(trace', "sim.reconfigure") = <<>>
           /\ EventsIn(trace', "task.reset") = <<>> ]_vars

\* ------------------------------------------------------------------- C13
\* reset() was called last and returned.
ResetReturned == lastOp = "reset" /\ result = "ok"

ResetAborted == lastOp = "reset" /\ result \notin {"ok", "running"}

\* C14: a step() succeeds only when the most recent reset() ran its
\* reconfiguration to completion; in particular the step() called right
\* after a reset() that raised (empty episode set, exhausted fixed-pose
\* table, cursor failure, failed sampling) is rejected.
C14_StepNeedsReconfigure ==
    [][ (StepCall /\ ResetAborted) => result' # "ok" ]_vars

\* ------------------------------------------------------------------- C15
\* C15: when a reset() has returned, no episode other than the current one
\* holds a shortest-path cache, whatever steps, pins and replacements of
\* the episode list came before.
C15_OnlyCurrentCached ==
    ResetReturned => env.cached \subseteq {env.current_episode}

\* ------------------------------------------------------------------- C16
\* step() was called last and returned.
StepReturned == lastOp = "step" /\ result = "ok"

\* What task.is_episode_active read in the step() whose calls are tr.
TaskActive(tr) == EventsIn(tr, "is_episode_active") # <<>>

\* C16: a step() that returns, for whichever agent, has raised
\* elapsed_steps by exactly one and set episode_over to (not task active)
\* or past-limit, where past-limit compares the raised elapsed_steps with
\* the step budget the environment stores and the seconds since the episode
\* start with the time budget; a budget of 0 never ends the episode.
C16_StepUpdate ==
    [][ (StepCall /\ result' = "ok")
        => LET limit ==
                 \/ /\ env.max_episode_steps # 0
                    /\ env.elapsed_steps + 1 >= env.max_episode_steps
                 \/ /\ env.max_episode_seconds # 0
                    /\ now - env.episode_start_time >= env.max_episode_seconds
           IN  /\ env'.elapsed_steps = env.elapsed_steps + 1
               /\ env'.episode_over = (~TaskActive(trace') \/ limit)
               /\ (env.max_episode_steps = 0 /\ env.max_episode_seconds = 0
                      /\ TaskActive(trace')) => ~env'.episode_over
               /\ env'.max_episode_steps = env.max_episode_steps
               /\ env'.max_episode_seconds = env.max_episode_seconds
               /\ env'.episode_start_time = env.episode_start_time ]_vars

\* C16 witness: a step() of the second agent, with the task still active
\* and the step budget not used up, ended the episode on the time budget.
C16_Witness ==
    /\ StepReturned
    /\ EventsIn(trace, "task.step")[1].idx = 1
    /\ TaskActive(trace)
    /\ env.max_episode_seconds # 0
    /\ env.max_episode_steps # 0 /\ env.elapsed_steps < env.max_episode_steps
    /\ env.episode_over

\* ------------------------------------------------------------------- C17
\* The names of the calls in a trace, in order.
Names(tr) == [i \in 1..Len(tr) |-> tr[i].ev]

\* C17: a step() that returns sends exactly one step_taken notification
\* when the cursor is an EpisodeIterator, as its last call: after the task
\* step, the update of the measures and the update of elapsed_steps and
\* episode_over (which reads task.is_episode_active); it sends none to a
\* cursor without the notification. A step() that fails sends none, and
\* reset() sends none.
C17_NotifyAfterStep ==
    [][ /\ (StepCall /\ result' = "ok")
           => LET stats == IF TaskActive(trace') THEN "is_episode_active"
                           ELSE "not_episode_active"
              IN  Names(trace') =
                     <<"task.step", "update_measures", stats>>
                     \o (IF ~env.episode_iterator.none /\ env.episode_iterator.notify
                         THEN <<"step_taken">> ELSE <<>>)
        /\ (StepCall /\ result' # "ok") => EventsIn(trace', "step_taken") = <<>>
        /\ (lastOp' = "reset") => EventsIn(trace', "step_taken") = <<>> ]_vars

\* C17 witness: a step() returned after notifying the dataset's cursor.
C17_Witness ==
    /\ StepReturned
    /\ env.episode_iterator.notify
    /\ Len(Events("step_taken")) = 1
    /\ trace[Len(trace)].ev = "step_taken"

\* ------------------------------------------------------------------- C18
\* A start state satisfies the constraints in force: all agents on one
\* vertical coordinate and, unless USE_FULL_RAND_STATE, every two agents at
\* planar distance at least 2.
Acceptable(cfg, position) ==
    /\ \A i \in 1..Len(position) : \A j \in 1..Len(position) :
          position[i][2] = position[j][2]
    /\ ~cfg.USE_FULL_RAND_STATE =>
          \A i \in 1..Len(position) : \A j \in 1..Len(position) :
              i # j => PlanarSquared(position[i], position[j]) >= 2 * 2

\* The episode list holds NUM_AGENTS distinct episodes whose start
\* positions satisfy the constraints.
AcceptableExists ==
    /\ config.NUM_AGENTS <= Len(episodes)
    /\ \E s \in Samples(episodes, config.NUM_AGENTS) :
          Acceptable(config, StartPositions(s))

\* C18: when such a set of episodes exists, a generate_state that was
\* entered returns, given fair random draws.
C18_SamplingTerminates ==
    (pc = "generate_state" /\ AcceptableExists) ~> (pc = "idle")

\* ------------------------------------------------------------------- C19
\* reset() is about to call generate_state: it was called in sampling mode
\* and selects an episode without raising.
EntersSampling ==
    /\ pc = "idle" /\ ~config.USE_FIXED_START_POS
    /\ \E c \in Choices : ResetPrefix(env, now, config, episodes, c).err = "ok"

PassesTest(cfg, position) ==
    /\ \A i \in 1..Len(position) : \A j \in 1..Len(position) :
          position[i][2] = position[j][2]
    /\ ~cfg.USE_FULL_RAND_STATE =>
          \A i \in 1..Len(position) : \A j \in 1..Len(position) :
              i # j => PlanarSquared(position[i], position[j]) < 2 * 2

\* Some draw of NUM_AGENTS distinct episodes passes that test.
PassingDrawExists ==
    \E s \in Samples(episodes, config.NUM_AGENTS) : PassesTest(config, StartPositions(s))

At(name) == { i \in 1..Len(trace) : trace[i].ev = name }

\* C20: in a reset() that returned the statistics are cleared first, the
\* episode is selected next, then the simulator configuration is built and
\* the simulator reconfigured, exactly once, then the task is reset, then
\* the measures - the last three on the episode that is current when
\* reset() returns; step() never reconfigures the simulator.
C20_ResetOrder ==
    /\ ResetReturned =>
          LET n == Len(trace)
              selections == At("next") \cup At("choice")
          IN  /\ n >= 6
              /\ At("reset_stats") = {1}
              /\ selections # {}
              /\ \A i \in selections : 1 < i /\ i < n - 3
              /\ \E i \in selections :
                    /\ \A j \in selections : j <= i
                    /\ trace[i].ep = env.current_episode
              /\ At("overwrite_sim_config") = {n - 3}
              /\ At("sim.reconfigure") = {n - 2}
              /\ At("task.reset") = {n - 1}
              /\ At("reset_measures") = {n}
              /\ \A i \in (n - 3)..n : trace[i].ep = env.current_episode
              /\ trace[n - 3].pos = trace[n - 2].pos
              /\ trace[n - 3].rot = trace[n - 2].rot
    /\ lastOp = "step" =>
          At("sim.reconfigure") = {} /\ At("overwrite_sim_config") = {}

\* C20 witness: a reset() in use-same-scene mode returned, after a draw
\* from the cursor and a random choice.
C20_Witness ==
    /\ ResetReturned
    /\ At("next") # {} /\ At("choice") # {}
    /\ Cardinality(At("sim.reconfigure")) = 1

\* ------------------------------------------------------------------- C21
\* C21: in use-same-scene mode a reset() that selects an episode makes a
\* member of the episode list current, chosen without the cursor, and
\* leaves the cursor where it was: it takes no value from it.
C21_SameSceneKeepsCursor ==
    [][ (ResetCall /\ config.USE_SAME_SCENE /\ result' \in {"ok", "running"})
        => /\ \E i \in 1..Len(episodes) : env'.current_episode = episodes[i]
           /\ Len(EventsIn(trace', "choice")) = 1
           /\ EventsIn(trace', "next") = <<>>
           /\ env'.episode_iterator = env.episode_iterator ]_vars

\* ------------------------------------------------------------------- C22
\* C22: elapsed_steps is the number of step() calls that returned since
\* reset() was last called, it is never negative, and with a non-zero
\* stored step budget it never exceeds that budget - after any resets,
\* steps, pins and replacements of the cursor or the episode list.
C22_StepsWithinBudget ==
    /\ env.elapsed_steps >= 0
    /\ env.elapsed_steps = steps_since_reset
    /\ env.max_episode_steps # 0 => env.elapsed_steps <= env.max_episode_steps

\* C22 witness: the largest stored budget, MaxSteps for each of MaxAgents
\* agents, is used up and the episode is over.
C22_Witness ==
    /\ env.max_episode_steps = MaxSteps * MaxAgents
    /\ env.elapsed_steps = env.max_episode_steps
    /\ steps_since_reset = MaxSteps * MaxAgents
    /\ env.episode_over

\* ------------------------------------------------------------------- C23
\* The errors of the three checks step() makes before anything else.
StepCheckErrors == {"StepBeforeReset", "EpisodeAlreadyOver", "StaleEpisodeState"}

\* C23: a step() that fails one of its three checks changes nothing: the
\* fields of the environment (elapsed_steps, episode_over, start time,
\* both flags, current episode, cursor, load_num) and the episode list are
\* as before, and neither the task step nor the update of the measures is
\* called.
C23_FailedStepFrame ==
    [][ (StepCall /\ result' \in StepCheckErrors)
        => /\ env' = env
           /\ episodes' = episodes
           /\ EventsIn(trace', "task.step") = <<>>
           /\ EventsIn(trace', "update_measures") = <<>>
           /\ EventsIn(trace', "step_taken") = <<>> ]_vars

\* C23 witness: a step() was refused as stale in the middle of an episode
\* that had taken a step, in fixed-pose mode after a table read.
C23_Witness ==
    /\ lastOp = "step" /\ result = "StaleEpisodeState"
    /\ env.elapsed_steps >= 1
    /\ env.load_num >= 1
    /\ trace = <<>>

====
